---- MODULE Spec2Model ----
(***************************************************************************)
(* The pipeline orchestrator of multiagent-loop (supervisor.py, agent.py). *)
(*                                                                         *)
(* Spec: run_pipeline drives up to max_iterations calls of run_iteration;  *)
(* each iteration runs planner, the implementer/reviewer loop (loop A),    *)
(* the tester/implementer loop (loop B) and user.  One action per agent    *)
(* call: the stage function and the control flow that follows it up to     *)
(* the next agent call.  An agent response is represented by the verdict   *)
(* markers that occur in it as substrings; the stage functions test        *)
(* nothing else of the text.  Every verdict is computed inside the stage   *)
(* function from the agent's response, before process_agent_output         *)
(* appends a human answer to it (supervisor.py:562, 651, 723 against       *)
(* 729-738), so the escalation exchange and the checkpoint store do not    *)
(* enter the control flow of Spec.                                         *)
(*                                                                         *)
(* SpecStage: what one stage invocation does inside: run_agent (branch     *)
(* set-up, the executor process, the auto-commit, the error envelope),     *)
(* the stage function's artifact writes and commit, and                    *)
(* process_agent_output (escalation, human response, merge to main).       *)
(* The orchestrator is any sequence of stage invocations.                  *)
(*                                                                         *)
(* SpecDetect: check_for_escalation applied to a text given line by line.  *)
(*                                                                         *)
(* SpecPids: two runs on different workspaces inside run_agent at the      *)
(* same time, with the PID files both of them use.                         *)
(*                                                                         *)
(* SpecSurface: run_continuous with its queue file, the checkpoints        *)
(* run_pipeline makes (a run is its sequence of commits and the way it     *)
(* ends), and push_workspace.                                              *)
(*                                                                         *)
(* SpecVerdict: two runs that reach the same stage with the same agent     *)
(* response and differ in what the human answers to the escalation.        *)
(*                                                                         *)
(* The trunk branch is taken to be named main, as the code names it.       *)
(* git commands are taken to succeed, except the two merges whose failure  *)
(* the code handles; a file written is taken to differ from what was       *)
(* committed before.                                                       *)
(***************************************************************************)
EXTENDS Integers, Sequences, FiniteSets, TLC

\* Largest --max-iterations value explored (the option accepts any integer).
MaxIterations == 3
\* Largest max_inner_iterations explored (run_iteration's parameter).
MaxInner == 3
\* Number of stage invocations explored in SpecStage.
MaxStages == 2
\* Largest number of lines of an agent output explored in SpecDetect.
MaxLines == 3
\* Number of executor processes started in SpecPids.
MaxPids == 3
\* Number of calls of check_for_escalation on one text in SpecDetect.
MaxDetections == 2
\* Number of task lines written to the queue file in SpecSurface.
MaxTasks == 3
\* Largest number of stage commits of one run explored in SpecSurface.
MaxRunCommits == 1
\* Number of calls of push_workspace explored in SpecSurface.
MaxPushes == 1

VARIABLES
    max_iterations,        \* run_pipeline parameter
    max_inner_iterations,  \* run_iteration parameter
    continue_conversations,\* run_pipeline parameter (--continue)
    pc,                    \* the agent call (or pipeline step) that comes next
    iteration,             \* i + 1 in run_pipeline's for loop
    inner_iteration,       \* loop A counter
    tester_iteration,      \* loop B counter
    reviewer_feedback,     \* feedback handed to the implementer in loop A
    tester_feedback,       \* feedback handed to the implementer in loop B
    user_feedback,         \* feedback handed to the planner
    results,               \* run_iteration's results dict
    all_results,           \* run_pipeline's list of iteration results
    calls,                 \* agent calls of the current iteration, in order
    artifacts,             \* files present in the workspace directory
    final,                 \* what run_pipeline returned
    cumulative,            \* CUMULATIVE_UNDERSTANDING.md: the iterations whose
                           \* understanding it holds, in the order of the text
    only_failures,         \* every agent call of the run so far came back as
                           \* an error envelope without a verdict marker

    stage_pc,              \* where the current stage invocation stands
    stage_role,            \* role of the current stage invocation
    stages_run,            \* stage invocations started so far
    branch,                \* the checked-out branch of the workspace
    branches,              \* role branches that exist
    commits,               \* the commits of the workspace, in creation order
    reach,                 \* per branch, the commits it contains
    dirty,                 \* directories holding uncommitted changes
    dirs,                  \* role subdirectories that exist
    executor_failed,       \* the executor exited with a failure and stderr
    at_commit,             \* dirty, as commit_agent_work found it
    agent_return,          \* run_agent's return value
    output,                \* what process_agent_output returns
    human_response,        \* what request_human_input returned
    esc_file,              \* content of the ESCALATION_<i>_<role>.md file
    written,               \* (role, directory) of the files the stage wrote
    merges,                \* merges into main attempted so far
    log,                   \* what the stage invocation did, in order

    agent_output,          \* argument of check_for_escalation, as lines
    escalation,            \* its return value
    detections,            \* how many times it has been called on the text

    run_pc,                \* per run: inside run_agent or not
    run_role,              \* per run: the role whose agent it started
    run_pid,               \* per run: the pid of the process it started
    pid_files,             \* per role: the pid held by pids/<role>.pid
    next_pid,              \* pid the next process gets

    queue,                 \* the task lines of the queue file
    loop_pc,               \* where run_continuous stands
    tasks,                 \* pop_task_from_queue's list of tasks read
    task,                  \* the task run_continuous handed to run_pipeline
    tasks_completed,       \* run_continuous's counter
    outcomes,              \* how each call of run_pipeline ended, in order
    errors_logged,         \* the task numbers of the errors logged
    history,               \* the checkpoints of the checked-out line
    origin,                \* how many of them origin/main holds
    cloned,                \* the workspace was made by init_workspace_from
    understanding,         \* an understanding is given and can be loaded
    shared_saved,          \* SHARED_UNDERSTANDING.md is committed
    next_task,             \* the next task line the outside writer adds
    concurrent_write,      \* a task line was added between the read and the
                           \* write-back of a pop
    run_commits,           \* stage commits of the current run
    pushes,                \* calls of push_workspace so far
    current_branch,        \* git branch --show-current in the workspace
    task_file,             \* TASK.md exists in the workspace directory
    pushed,                \* what the last push_workspace pushed
    squash_message,        \* first line of the last squash commit's message

    v_role,                \* the role of the stage two runs have reached
    v_response,            \* the words of the agent's response, in both runs
    v_stage,               \* per run: the stage has been run or not
    v_human,               \* per run: the words of the human's response
    v_output,              \* per run: what process_agent_output returned
    v_verdict,             \* per run: the verdict run_iteration keeps
    v_next                 \* per run: the agent call that comes next

pipeVars == <<max_iterations, max_inner_iterations,
              continue_conversations, pc, iteration,
              inner_iteration, tester_iteration, reviewer_feedback,
              tester_feedback, user_feedback, results, all_results, calls,
              artifacts, final, cumulative, only_failures>>

stageVars == <<stage_pc, stage_role, stages_run, branch, branches, commits,
               reach, dirty, dirs, executor_failed, at_commit,
               agent_return, output, human_response, esc_file, written, merges, log>>

detectVars == <<agent_output, escalation, detections>>

pidVars == <<run_pc, run_role, run_pid, pid_files, next_pid>>

surfVars == <<queue, loop_pc, tasks, task, tasks_completed, outcomes,
              errors_logged, history, origin, cloned, understanding,
              shared_saved, next_task, concurrent_write, run_commits,
              pushes, current_branch, task_file, pushed, squash_message>>

verdVars == <<v_role, v_response, v_stage, v_human, v_output, v_verdict,
              v_next>>

vars == <<pipeVars, stageVars, detectVars, pidVars, surfVars, verdVars>>

-----------------------------------------------------------------------------
\* Agent outputs

Roles == {"planner", "implementer", "reviewer", "tester", "user"}

\* The verdict words a stage function looks for in its agent's response.
Markers(role) ==
    CASE role = "reviewer" -> {"APPROVED", "NEEDS_CHANGES"}
      [] role = "tester"   -> {"TESTS_PASSED", "TESTS_FAILED"}
      [] role = "user"     -> {"SATISFIED", "NEEDS_IMPROVEMENT"}
      [] OTHER             -> {}

\* The workspace directory itself, and a directory that does not exist in
\* it (as in a file block named pkg/app.py).
RootDir == "."

NewDir == "pkg"

\* What the executor process can end with: its exit code, the words of
\* interest in its stdout and stderr, and the directories named by the file
\* blocks in its stdout.
Outcomes(words, filesets) ==
    {o \in [returncode : {0, 1}, stdout : SUBSET words,
            stderr_empty : BOOLEAN, stderr : SUBSET words,
            files : filesets] :
        o.stderr_empty => o.stderr = {}}

\* if result.returncode != 0 and result.stderr
RunAgentFailed(o) == o.returncode # 0 /\ ~o.stderr_empty

\* The words in run_agent's return value: those of the error envelope
\* "Error: {stderr}\n\nOutput: {output}" on failure, of stdout otherwise.
Response(o) ==
    IF RunAgentFailed(o) THEN o.stderr \cup o.stdout ELSE o.stdout

\* The call failed and its error envelope has no verdict marker of the role.
Degraded(role, o) == RunAgentFailed(o) /\ Response(o) \cap Markers(role) = {}

\* The directories of the files a stage function extracts from the response
\* and saves: implementer() takes every file block, tester() those named
\* test_*.py, the other stage functions none.
ExtractedFiles(role, o) ==
    CASE role = "implementer" -> o.files
      [] role = "tester"      -> o.files \cap {RootDir, NewDir}
      [] OTHER                -> {}

\* save_artifact: path.write_text raises FileNotFoundError when the
\* directory of the path does not exist; made are the role subdirectories
\* that exist.
StageRaises(role, o, made) ==
    \E d \in ExtractedFiles(role, o) : d \notin {RootDir} \cup made

\* The executor outcomes explored in Spec.
PipelineOutcomes(role) == Outcomes(Markers(role), {{}, {NewDir}})

\* Python None for a feedback argument or a missing results entry.
NoOutput == [id |-> <<0, "none", 0>>, words |-> {}]
\* marker in response
Contains(response, marker) == marker \in response.words

ReviewerApproved_DefaultPass(response) ==
    ~Contains(response, "NEEDS_CHANGES")

\* reviewer(): "APPROVED" in response and "NEEDS_CHANGES" not in response
ReviewerApproved(response) ==
    Contains(response, "APPROVED") /\ ~Contains(response, "NEEDS_CHANGES")

\* tester(): "TESTS_PASSED" in response and "TESTS_FAILED" not in response
TesterPassed(response) ==
    Contains(response, "TESTS_PASSED") /\ ~Contains(response, "TESTS_FAILED")

UserSatisfied_DefaultPass(response) ==
    ~Contains(response, "NEEDS_IMPROVEMENT")

\* user(): "SATISFIED" in response and "NEEDS_IMPROVEMENT" not in response
UserSatisfied(response) ==
    Contains(response, "SATISFIED") /\ ~Contains(response, "NEEDS_IMPROVEMENT")

-----------------------------------------------------------------------------
\* Control flow of run_iteration and run_pipeline

LoopACondition_OffByOne(inner, m) == inner <= m

\* while inner_iteration < max_inner_iterations
LoopACondition(inner, m) == inner < m

LoopBCondition_OffByOne(t, m) == t <= m

\* while tester_iteration < max_inner_iterations
LoopBCondition(t, m) == t < m

BreakOnApproved_Never(approved) == FALSE

\* if review_result["approved"]: break
BreakOnApproved(approved) == approved

BreakOnSatisfied_Never(satisfied) == FALSE

\* if results["user_satisfied"]: break
BreakOnSatisfied(satisfied) == satisfied

TesterCode_Plan(res) == res.planner

\* the code argument of tester(): results["implementer"]
TesterCode(res) == res.implementer

UserCode_Plan(res) == res.planner

\* the code argument of user(): results["implementer"]
UserCode(res) == res.implementer

ReviewerFeedback_Implementation(res) == res.implementer

\* reviewer_feedback = results["reviewer"]
ReviewerFeedback(res) == res.reviewer

TesterFeedback_Reviewer(res) ==
    [id |-> res.reviewer.id, words |-> res.reviewer.words,
     header |-> "TESTER FEEDBACK (tests failed):"]

\* tester_feedback = f"TESTER FEEDBACK (tests failed):\n{results['tester']}"
TesterFeedback(res) ==
    [id |-> res.tester.id, words |-> res.tester.words,
     header |-> "TESTER FEEDBACK (tests failed):"]

NextFeedback_Plan(res) == res.planner

\* user_feedback = results["user"]
NextFeedback(res) == res.user

AfterImplementer_SkipReview(site) == "tester"

\* The agent call that follows an implementer call: the reviewer in loop A,
\* the tester in loop B.
AfterImplementer(site) == IF site = "A" THEN "reviewer" ELSE "tester"

UpdateCumulative_Overwrite(doc, k) == <<k>>

\* The update of CUMULATIVE_UNDERSTANDING.md after iteration k: the text of
\* ITERATION_k_UNDERSTANDING.md is added after what the file holds, or
\* after the title when the file does not exist.
UpdateCumulative(doc, k) == Append(doc, k)

\* results = {} at the start of run_iteration
EmptyResults ==
    [planner |-> NoOutput, implementer |-> NoOutput, reviewer |-> NoOutput,
     tester |-> NoOutput, user |-> NoOutput,
     approved |-> FALSE, tests_passed |-> FALSE, user_satisfied |-> FALSE]

\* What run_pipeline returned: nothing yet.
NoFinal == [status |-> "none", iterations |-> 0, final_satisfied |-> FALSE]

\* The calls a role has made in the current iteration.
CallsOf(role) == SelectSeq(calls, LAMBDA c : c.role = role)

\* The output of the next call of a role: identified by iteration, role and
\* the number of the call within the iteration.
NewOutput(role, response) ==
    [id |-> <<iteration, role, Len(CallsOf(role)) + 1>>, words |-> response]

StageContinue_FlagOnly(flag, it) == flag

\* continue_session=(continue_conversations or iteration > 1) in every
\* stage function; flag is the continue_conversations argument
\* run_iteration passes to the stage function.
StageContinue(flag, it) == flag \/ it > 1

\* The record of one agent call: what it was given (cont: the
\* continue_session argument of run_agent) and what it returned.
Call(role, site, input, fb, out, verdict, cont) ==
    [role |-> role, site |-> site, input |-> input.id, fb |-> fb.id,
     out |-> out.id, verdict |-> verdict, cont |-> cont]

-----------------------------------------------------------------------------
\* The state of a workspace and of the PID directory before any stage runs

Branches == {"main"} \cup Roles

Commit_OnMain(tag, on, stage, by) ==
    [tag |-> tag, branch |-> "main", stage |-> stage, by |-> by]

\* A commit: the tag that opens its message, the branch it was made on, the
\* stage invocation that made it and the call that made it.
Commit(tag, on, stage, by) ==
    [tag |-> tag, branch |-> on, stage |-> stage, by |-> by]

\* No stage output yet.
NoStageOutput == [parts |-> {}, esc |-> FALSE, human |-> "none"]

\* init_workspace and the start of run_pipeline: the repository has the
\* branch main, checked out, holding the task commit; nothing is running.
StageIdle ==
    /\ stage_pc = "idle"
    /\ stage_role = "none"
    /\ stages_run = 0
    /\ branch = "main"
    /\ branches = {}
    /\ commits = <<Commit("supervisor", "main", 0, "run_pipeline")>>
    /\ reach = [b \in Branches |-> IF b = "main" THEN {1} ELSE {}]
    /\ dirty = {}
    /\ dirs = {}
    /\ executor_failed = FALSE
    /\ at_commit = {}
    /\ agent_return = {}
    /\ output = NoStageOutput
    /\ human_response = "none"
    /\ esc_file = "absent"
    /\ written = {}
    /\ merges = 0
    /\ log = <<>>

\* check_for_escalation has not been called.
NoEscalation == [called |-> FALSE, needs_human |-> FALSE, message |-> <<>>]

DetectIdle ==
    /\ agent_output = <<>>
    /\ escalation = NoEscalation
    /\ detections = 0

Runs == {"A", "B"}

\* No run is inside run_agent and the PID directory is empty (0: no file).
PidsIdle ==
    /\ run_pc = [r \in Runs |-> "idle"]
    /\ run_role = [r \in Runs |-> "none"]
    /\ run_pid = [r \in Runs |-> 0]
    /\ pid_files = [role \in Roles |-> 0]
    /\ next_pid = 1

\* push_workspace has not pushed anything.
NoPush == [branch |-> "none", pr |-> FALSE, onto_main |-> FALSE]

\* run_continuous has not been called; the workspace either does not exist
\* or is a clone of a repository with one commit.
SurfaceIdle ==
    /\ queue = <<>>
    /\ loop_pc = "off"
    /\ tasks = <<>>
    /\ task = 0
    /\ tasks_completed = 0
    /\ outcomes = <<>>
    /\ errors_logged = {}
    /\ history = <<>>
    /\ origin = 0
    /\ cloned = FALSE
    /\ understanding = FALSE
    /\ shared_saved = FALSE
    /\ next_task = 1
    /\ concurrent_write = FALSE
    /\ run_commits = 0
    /\ pushes = 0
    /\ current_branch = "main"
    /\ task_file = FALSE
    /\ pushed = NoPush
    /\ squash_message = "none"

\* No stage is being compared.
VerdictIdle ==
    /\ v_role = "none"
    /\ v_response = {}
    /\ v_stage = [r \in Runs |-> "idle"]
    /\ v_human = [r \in Runs |-> {}]
    /\ v_output = [r \in Runs |-> {}]
    /\ v_verdict = [r \in Runs |-> FALSE]
    /\ v_next = [r \in Runs |-> "none"]

\* run_pipeline has not been called.
PipelineIdle ==
    /\ max_iterations = 0
    /\ max_inner_iterations = 1
    /\ continue_conversations = FALSE
    /\ pc = "start"
    /\ iteration = 0
    /\ inner_iteration = 0
    /\ tester_iteration = 0
    /\ reviewer_feedback = NoOutput
    /\ tester_feedback = NoOutput
    /\ user_feedback = NoOutput
    /\ results = EmptyResults
    /\ all_results = <<>>
    /\ calls = <<>>
    /\ artifacts = {}
    /\ final = NoFinal
    /\ cumulative = <<>>
    /\ only_failures = TRUE

-----------------------------------------------------------------------------

Init ==
    /\ max_iterations \in 0..MaxIterations
    /\ max_inner_iterations \in 1..MaxInner
    /\ continue_conversations \in BOOLEAN
    /\ pc = "start"
    /\ iteration = 0
    /\ inner_iteration = 0
    /\ tester_iteration = 0
    /\ reviewer_feedback = NoOutput
    /\ tester_feedback = NoOutput
    /\ user_feedback = NoOutput
    /\ results = EmptyResults
    /\ all_results = <<>>
    /\ calls = <<>>
    /\ artifacts = {}
    /\ final = NoFinal
    /\ cumulative = <<>>
    /\ only_failures = TRUE
    /\ StageIdle
    /\ DetectIdle
    /\ PidsIdle /\ SurfaceIdle /\ VerdictIdle

\* run_pipeline up to the for loop: the task statement is saved, then the
\* first iteration starts, or the loop body is skipped when range() is empty.
StartPipeline ==
    /\ pc = "start"
    /\ artifacts' = artifacts \cup {"TASK.md"}
    /\ IF max_iterations > 0
         THEN /\ iteration' = 1
              /\ pc' = "planner"
         ELSE /\ iteration' = iteration
              /\ pc' = "report"
    /\ UNCHANGED <<max_iterations, max_inner_iterations,
                   continue_conversations, inner_iteration,
                   tester_iteration, reviewer_feedback, tester_feedback,
                   user_feedback, results, all_results, calls, final,
                   cumulative, only_failures>>
    /\ UNCHANGED <<stageVars, detectVars, pidVars, surfVars, verdVars>>

\* Stage 1 of run_iteration, then the head of loop A.
Planner ==
    /\ pc = "planner"
    /\ \E outcome \in PipelineOutcomes("planner") :
         LET out == [id |-> <<iteration, "planner", 1>>,
                     words |-> Response(outcome)]
         IN  /\ results' = [EmptyResults EXCEPT !.planner = out]
             /\ calls' = <<Call("planner", "plan", NoOutput, user_feedback,
                                out, FALSE,
                                StageContinue(continue_conversations,
                                              iteration))>>
             /\ only_failures' = (only_failures /\ Degraded("planner", outcome))
    /\ artifacts' = artifacts \cup {"PLAN.md"}
    /\ reviewer_feedback' = NoOutput
    /\ tester_feedback' = NoOutput
    /\ IF LoopACondition(0, max_inner_iterations)
         THEN /\ inner_iteration' = 1
              /\ tester_iteration' = 0
              /\ pc' = "implementer_a"
         ELSE /\ inner_iteration' = 0
              /\ IF LoopBCondition(0, max_inner_iterations)
                   THEN /\ tester_iteration' = 1
                        /\ pc' = "tester"
                   ELSE /\ tester_iteration' = 0
                        /\ pc' = "user"
    /\ UNCHANGED <<max_iterations, max_inner_iterations,
                   continue_conversations, iteration,
                   user_feedback, all_results, final, cumulative>>
    /\ UNCHANGED <<stageVars, detectVars, pidVars, surfVars, verdVars>>

\* The implementer call of loop A.  implementer() saves every file block of
\* the response before it returns; a block naming a path in a directory that
\* does not exist makes save_artifact raise, and nothing up to the command
\* line catches the exception.
ImplementerA ==
    /\ pc = "implementer_a"
    /\ \E outcome \in PipelineOutcomes("implementer") :
         LET out == NewOutput("implementer", Response(outcome))
         IN  /\ only_failures' =
                    (only_failures /\ Degraded("implementer", outcome))
             /\ IF StageRaises("implementer", outcome, Roles)
                  THEN /\ calls' = Append(calls, Call("implementer", "A",
                                      results.planner, reviewer_feedback,
                                      NoOutput, FALSE,
                                StageContinue(continue_conversations \/ inner_iteration > 1,
                                              iteration)))
                       /\ pc' = "error"
                       /\ UNCHANGED <<results, artifacts>>
                  ELSE /\ results' = [results EXCEPT !.implementer = out]
                       /\ calls' = Append(calls, Call("implementer", "A",
                                      results.planner, reviewer_feedback,
                                      out, FALSE,
                                StageContinue(continue_conversations \/ inner_iteration > 1,
                                              iteration)))
                       /\ artifacts' = artifacts \cup {"IMPLEMENTATION.md"}
                       /\ pc' = AfterImplementer("A")
    /\ UNCHANGED <<max_iterations, max_inner_iterations,
                   continue_conversations, iteration,
                   inner_iteration, tester_iteration, reviewer_feedback,
                   tester_feedback, user_feedback, all_results, final, cumulative>>
    /\ UNCHANGED <<stageVars, detectVars, pidVars, surfVars, verdVars>>

\* The reviewer call of loop A, the break, the loop condition and the head
\* of loop B.
Reviewer ==
    /\ pc = "reviewer"
    /\ \E outcome \in PipelineOutcomes("reviewer") :
         LET out == NewOutput("reviewer", Response(outcome))
             approved == ReviewerApproved(out)
         IN  /\ results' = [results EXCEPT !.reviewer = out,
                                           !.approved = approved]
             /\ calls' = Append(calls, Call("reviewer", "A",
                                 results.implementer, NoOutput, out,
                                 approved,
                                StageContinue(continue_conversations \/ inner_iteration > 1,
                                              iteration)))
             /\ only_failures' = (only_failures /\ Degraded("reviewer", outcome))
             /\ reviewer_feedback' =
                    IF BreakOnApproved(approved)
                      THEN reviewer_feedback
                      ELSE ReviewerFeedback([results EXCEPT !.reviewer = out])
             /\ IF ~BreakOnApproved(approved)
                   /\ LoopACondition(inner_iteration, max_inner_iterations)
                  THEN /\ inner_iteration' = inner_iteration + 1
                       /\ pc' = "implementer_a"
                       /\ tester_iteration' = tester_iteration
                  ELSE /\ inner_iteration' = inner_iteration
                       /\ IF LoopBCondition(0, max_inner_iterations)
                            THEN /\ tester_iteration' = 1
                                 /\ pc' = "tester"
                            ELSE /\ tester_iteration' = 0
                                 /\ pc' = "user"
    /\ artifacts' = artifacts \cup {"REVIEW.md"}
    /\ UNCHANGED <<max_iterations, max_inner_iterations,
                   continue_conversations, iteration,
                   tester_feedback, user_feedback, all_results, final, cumulative>>
    /\ UNCHANGED <<stageVars, detectVars, pidVars, surfVars, verdVars>>

\* The tester call of loop B, the break and the loop condition.  tester()
\* saves the test files named in the response as implementer() does.
Tester ==
    /\ pc = "tester"
    /\ \E outcome \in PipelineOutcomes("tester") :
         LET out == NewOutput("tester", Response(outcome))
             tests_passed == TesterPassed(out)
         IN  /\ only_failures' = (only_failures /\ Degraded("tester", outcome))
             /\ IF StageRaises("tester", outcome, Roles)
                  THEN /\ calls' = Append(calls, Call("tester", "B",
                                      TesterCode(results), results.reviewer,
                                      NoOutput, FALSE,
                                StageContinue(continue_conversations \/ tester_iteration > 1,
                                              iteration)))
                       /\ pc' = "error"
                       /\ UNCHANGED <<results, artifacts, tester_feedback,
                                      tester_iteration>>
                  ELSE /\ results' = [results EXCEPT
                                         !.tester = out,
                                         !.tests_passed = tests_passed]
                       /\ calls' = Append(calls, Call("tester", "B",
                                      TesterCode(results), results.reviewer,
                                      out, tests_passed,
                                StageContinue(continue_conversations \/ tester_iteration > 1,
                                              iteration)))
                       /\ tester_feedback' =
                              IF tests_passed
                                THEN tester_feedback
                                ELSE TesterFeedback(
                                         [results EXCEPT !.tester = out])
                       /\ IF ~tests_passed
                             /\ LoopBCondition(tester_iteration,
                                               max_inner_iterations)
                            THEN /\ tester_iteration' = tester_iteration + 1
                                 /\ pc' = "implementer_b"
                            ELSE /\ tester_iteration' = tester_iteration
                                 /\ pc' = "user"
                       /\ artifacts' = artifacts \cup {"USAGE.md"}
    /\ UNCHANGED <<max_iterations, max_inner_iterations,
                   continue_conversations, iteration,
                   inner_iteration, reviewer_feedback, user_feedback,
                   all_results, final, cumulative>>
    /\ UNCHANGED <<stageVars, detectVars, pidVars, surfVars, verdVars>>

\* The implementer call of loop B (re-run with the tester's feedback).
ImplementerB ==
    /\ pc = "implementer_b"
    /\ \E outcome \in PipelineOutcomes("implementer") :
         LET out == NewOutput("implementer", Response(outcome))
         IN  /\ only_failures' =
                    (only_failures /\ Degraded("implementer", outcome))
             /\ IF StageRaises("implementer", outcome, Roles)
                  THEN /\ calls' = Append(calls, Call("implementer", "B",
                                      results.planner, tester_feedback,
                                      NoOutput, FALSE,
                                StageContinue(TRUE,
                                              iteration)))
                       /\ pc' = "error"
                       /\ UNCHANGED <<results, artifacts>>
                  ELSE /\ results' = [results EXCEPT !.implementer = out]
                       /\ calls' = Append(calls, Call("implementer", "B",
                                      results.planner, tester_feedback,
                                      out, FALSE,
                                StageContinue(TRUE,
                                              iteration)))
                       /\ artifacts' = artifacts \cup {"IMPLEMENTATION.md"}
                       /\ pc' = AfterImplementer("B")
    /\ UNCHANGED <<max_iterations, max_inner_iterations,
                   continue_conversations, iteration,
                   inner_iteration, tester_iteration, reviewer_feedback,
                   tester_feedback, user_feedback, all_results, final, cumulative>>
    /\ UNCHANGED <<stageVars, detectVars, pidVars, surfVars, verdVars>>

\* Stage 5 and the end of run_iteration, then run_pipeline's loop body after
\* the call: append the results, break when satisfied, else go on to the
\* next iteration while iterations remain: the user's output becomes the
\* planner's feedback and the cumulative understanding is updated.
\* all_results keeps of each iteration the two verdicts the final report
\* reads.
User ==
    /\ pc = "user"
    /\ \E outcome \in PipelineOutcomes("user") :
         LET out == NewOutput("user", Response(outcome))
             satisfied == UserSatisfied(out)
         IN  /\ results' = [results EXCEPT !.user = out,
                                           !.user_satisfied = satisfied]
             /\ calls' = Append(calls, Call("user", "user",
                                 UserCode(results), results.tester, out,
                                 satisfied,
                                StageContinue(continue_conversations,
                                              iteration)))
             /\ only_failures' = (only_failures /\ Degraded("user", outcome))
             /\ all_results' = Append(all_results,
                                 [approved |-> results.approved,
                                  user_satisfied |-> satisfied])
             /\ IF BreakOnSatisfied(satisfied)
                  THEN /\ pc' = "report"
                       /\ iteration' = iteration
                       /\ user_feedback' = user_feedback
                       /\ cumulative' = cumulative
                  ELSE IF iteration - 1 < max_iterations - 1
                         THEN /\ pc' = "planner"
                              /\ iteration' = iteration + 1
                              /\ user_feedback' =
                                     NextFeedback([results EXCEPT
                                                      !.user = out])
                              /\ cumulative' =
                                     UpdateCumulative(cumulative, iteration)
                         ELSE /\ pc' = "report"
                              /\ iteration' = iteration
                              /\ user_feedback' = user_feedback
                              /\ cumulative' = cumulative
    /\ artifacts' = artifacts \cup {"USER_FEEDBACK.md"}
    /\ UNCHANGED <<max_iterations, max_inner_iterations,
                   continue_conversations, inner_iteration,
                   tester_iteration, reviewer_feedback, tester_feedback,
                   final>>
    /\ UNCHANGED <<stageVars, detectVars, pidVars, surfVars, verdVars>>

\* run_pipeline after the for loop: all_results[-1] raises IndexError when
\* no iteration ran; otherwise the final report is saved and the result
\* returned.
FinalReport ==
    /\ pc = "report"
    /\ IF all_results = <<>>
         THEN /\ pc' = "error"
              /\ UNCHANGED <<artifacts, final>>
         ELSE LET satisfied == all_results[Len(all_results)].user_satisfied
              IN  /\ artifacts' = artifacts \cup {"FINAL_REPORT.md"}
                  /\ final' = [status |-> IF satisfied THEN "COMPLETE"
                                                       ELSE "INCOMPLETE",
                               iterations |-> Len(all_results),
                               final_satisfied |-> satisfied]
                  /\ pc' = "done"
    /\ UNCHANGED <<max_iterations, max_inner_iterations,
                   continue_conversations, iteration,
                   inner_iteration, tester_iteration, reviewer_feedback,
                   tester_feedback, user_feedback, results, all_results,
                   calls, cumulative, only_failures>>
    /\ UNCHANGED <<stageVars, detectVars, pidVars, surfVars, verdVars>>

Next ==
    \/ StartPipeline
    \/ Planner
    \/ ImplementerA
    \/ Reviewer
    \/ Tester
    \/ ImplementerB
    \/ User
    \/ FinalReport

Spec == Init /\ [][Next]_vars
-----------------------------------------------------------------------------
\* One stage invocation: run_agent, the stage function, process_agent_output

\* One of check_for_escalation's markers.
EscalationMarker == "BLOCKED:"

\* The roles whose stages are explored: one whose stage function extracts
\* no files (reviewer() and user() save their document as planner() does),
\* and the two whose stage functions do.
StageRoles == {"planner", "implementer", "tester"}

\* The file blocks explored: none, or one block whose path lies in the
\* workspace directory, in a role's subdirectory or in a missing directory.
StageFiles == {{}} \cup {{d} : d \in {RootDir, NewDir} \cup StageRoles}

\* The executor outcomes explored in SpecStage.
StageOutcomes == Outcomes({EscalationMarker}, StageFiles)

CommitAgentWork_AddAll(role, changed) ==
    [committed |-> changed # {}, dirty |-> {}]

\* commit_agent_work(role), given the directories that hold uncommitted
\* changes: git add role/, then commit when something is staged.
CommitAgentWork(role, changed) ==
    [committed |-> role \in changed, dirty |-> changed \ {role}]

\* git_commit(message): git add -A, then commit when something is staged.
GitCommit(changed) == [committed |-> changed # {}, dirty |-> {}]

\* The parts of run_agent's return value: stdout, the note appended after
\* an auto-commit, and on failure the envelope around them that starts
\* with stderr.
RunAgentReturn(o, committed) ==
    LET out == {"stdout"} \cup
               (IF committed THEN {"[Committed changes]"} ELSE {})
    IN  IF RunAgentFailed(o)
          THEN {"Error:", "stderr", "Output:"} \cup out
          ELSE out

\* check_for_escalation(output) is not None
NeedsHuman(words) == EscalationMarker \in words

\* What request_human_input returns: the text typed at the console when it
\* is not blank; otherwise what the escalation file holds after the
\* "## Human Response" heading, which is the placeholder line when nobody
\* edited the file; the no-response sentinel when that is empty.
RequestHumanInput(typed, file) ==
    IF typed THEN "typed"
    ELSE CASE file = "edited"  -> "file"
           [] file = "blanked" -> "sentinel"
           [] OTHER            -> "placeholder"

\* request_human_input calls git_commit on every path but the last return.
HumanCommits(response) == response # "sentinel"

AppendHumanResponse_Dropped(out, response) == out

\* output += f"\n\n## Human Response\n\n{human_response}"
AppendHumanResponse(out, response) == [out EXCEPT !.human = response]

FinalizeAgent_Skipped(role, merged, g) == g

\* finalize_agent(role) = merge_to_main(role): checkout main, then merge the
\* role's branch, which may fail.  g holds the checked-out branch, the
\* commits of each branch, the number of merges into main attempted and
\* the record of the stage.
FinalizeAgent(role, merged, g) ==
    [branch |-> "main",
     reach |-> [g.reach EXCEPT !["main"] =
                   IF merged THEN @ \cup g.reach[role] ELSE @],
     merges |-> g.merges + 1,
     log |-> Append(g.log, "merge")]

SetupAgentBranch_Fatal(role, merged, g) ==
    [reach |-> [g.reach EXCEPT ![role] =
                   IF role \in g.branches THEN @ ELSE g.reach[g.branch]],
     pc |-> IF merged THEN "running" ELSE "raised",
     log |-> <<"start", IF merged THEN "merge_main"
                                  ELSE "merge_main_failed">>]

\* setup_agent_branch(role): the role's branch is checked out (created from
\* the checked-out branch when new) and main is merged into it; a failed
\* merge is logged and the function returns all the same, so run_agent
\* goes on to start the executor.  g holds the checked-out branch, the
\* existing role branches and the commits of each branch.
SetupAgentBranch(role, merged, g) ==
    [reach |-> [g.reach EXCEPT ![role] =
                   (IF role \in g.branches THEN @ ELSE g.reach[g.branch])
                   \cup (IF merged THEN g.reach["main"] ELSE {})],
     pc |-> "running",
     log |-> <<"start", IF merged THEN "merge_main"
                                  ELSE "merge_main_failed">>]

\* run_agent up to the start of the executor process: setup_agent_branch
\* creates the role's subdirectory and sets up the role's branch; then the
\* process is started.
StageStart(role) ==
    /\ stage_pc = "idle"
    /\ stages_run < MaxStages
    /\ \E merged \in BOOLEAN :
         LET set == SetupAgentBranch(role, merged,
                        [branch |-> branch, branches |-> branches,
                         reach |-> reach])
         IN  /\ reach' = set.reach
             /\ stage_pc' = set.pc
             /\ log' = set.log
    /\ dirs' = dirs \cup {role}
    /\ branches' = branches \cup {role}
    /\ branch' = role
    /\ stage_role' = role
    /\ stages_run' = stages_run + 1
    /\ executor_failed' = FALSE
    /\ at_commit' = {}
    /\ agent_return' = {}
    /\ output' = NoStageOutput
    /\ human_response' = "none"
    /\ esc_file' = "absent"
    /\ written' = {}
    /\ UNCHANGED <<commits, dirty, merges>>
    /\ UNCHANGED <<pipeVars, detectVars, pidVars, surfVars, verdVars>>

\* The executor process ends.  run_agent auto-commits the role's
\* subdirectory and returns; the stage function saves the extracted files
\* and the stage document in the workspace directory and commits; then
\* process_agent_output either finds an escalation, writes the escalation
\* file and waits for the human, or merges and returns.
AgentExit ==
    /\ stage_pc = "running"
    /\ \E o \in StageOutcomes, touched \in SUBSET {RootDir, stage_role},
          merged \in BOOLEAN :
         LET role == stage_role
             changed == dirty \cup touched
             work == CommitAgentWork(role, changed)
             commits1 ==
                 IF work.committed
                   THEN Append(commits, Commit(role, branch, stages_run,
                                               "commit_agent_work"))
                   ELSE commits
             reach1 ==
                 IF work.committed
                   THEN [reach EXCEPT ![branch] = @ \cup {Len(commits1)}]
                   ELSE reach
             log1 == IF work.committed THEN Append(log, "work_commit")
                                       ELSE log
             ret == RunAgentReturn(o, work.committed)
             saved == ExtractedFiles(role, o) \cup {RootDir}
             stage == GitCommit(work.dirty \cup saved)
             commits2 == Append(commits1, Commit(role, branch, stages_run,
                                                 "git_commit"))
             reach2 == [reach1 EXCEPT ![branch] = @ \cup {Len(commits2)}]
             log2 == Append(log1, "stage_commit")
             fin == FinalizeAgent(role, merged,
                        [branch |-> branch, reach |-> reach2,
                         merges |-> merges, log |-> log2])
         IN  /\ executor_failed' = RunAgentFailed(o)
             /\ at_commit' = changed
             /\ agent_return' = ret
             /\ IF StageRaises(role, o, dirs)
                  THEN /\ stage_pc' = "raised"
                       /\ commits' = commits1
                       /\ reach' = reach1
                       /\ dirty' = work.dirty
                       /\ log' = Append(log1, "raise")
                       /\ UNCHANGED <<output, written, esc_file, branch,
                                      merges>>
                  ELSE /\ commits' = commits2
                       /\ written' = {<<role, d>> : d \in saved}
                       /\ IF NeedsHuman(Response(o))
                            THEN /\ stage_pc' = "awaiting"
                                 /\ output' = [parts |-> ret, esc |-> TRUE,
                                               human |-> "none"]
                                 /\ esc_file' = "template"
                                 /\ dirty' = stage.dirty \cup {RootDir}
                                 /\ reach' = reach2
                                 /\ log' = Append(log2, "ask_human")
                                 /\ UNCHANGED <<branch, merges>>
                            ELSE /\ stage_pc' = "idle"
                                 /\ output' = [parts |-> ret, esc |-> FALSE,
                                               human |-> "none"]
                                 /\ dirty' = stage.dirty
                                 /\ branch' = fin.branch
                                 /\ reach' = fin.reach
                                 /\ merges' = fin.merges
                                 /\ log' = Append(fin.log, "return")
                                 /\ UNCHANGED esc_file
    /\ UNCHANGED <<stage_role, stages_run, branches, dirs, human_response>>
    /\ UNCHANGED <<pipeVars, detectVars, pidVars, surfVars, verdVars>>

\* While request_human_input waits at the console, the human edits the
\* escalation file: writes an answer under the heading, or removes the
\* placeholder line and leaves nothing under the heading.
HumanEditsFile ==
    /\ stage_pc = "awaiting"
    /\ esc_file = "template"
    /\ \E content \in {"edited", "blanked"} : esc_file' = content
    /\ UNCHANGED <<stage_pc, stage_role, stages_run, branch, branches, commits, reach,
                   dirty, dirs, executor_failed, at_commit, agent_return,
                   output,
                   human_response, written, merges, log>>
    /\ UNCHANGED <<pipeVars, detectVars, pidVars, surfVars, verdVars>>

\* The console input ends (text, or nothing but end of input).
\* request_human_input returns; process_agent_output appends the response
\* to the output, merges the role's branch to main and returns.
HumanResponds ==
    /\ stage_pc = "awaiting"
    /\ \E typed \in BOOLEAN, merged \in BOOLEAN :
         LET role == stage_role
             answer == RequestHumanInput(typed, esc_file)
             commit == IF HumanCommits(answer)
                         THEN GitCommit(dirty)
                         ELSE [committed |-> FALSE, dirty |-> dirty]
             commits1 ==
                 IF commit.committed
                   THEN Append(commits, Commit("human", branch, stages_run,
                                               "request_human_input"))
                   ELSE commits
             reach1 ==
                 IF commit.committed
                   THEN [reach EXCEPT ![branch] = @ \cup {Len(commits1)}]
                   ELSE reach
             log1 == Append(log, IF typed THEN "console_text"
                                          ELSE "console_nothing")
             log2 == IF commit.committed THEN Append(log1, "human_commit")
                                         ELSE log1
             fin == FinalizeAgent(role, merged,
                        [branch |-> branch, reach |-> reach1,
                         merges |-> merges,
                         log |-> Append(log2, "human_returned")])
         IN  /\ human_response' = answer
             /\ output' = AppendHumanResponse(output, answer)
             /\ esc_file' = IF typed THEN "typed" ELSE esc_file
             /\ commits' = commits1
             /\ dirty' = commit.dirty
             /\ branch' = fin.branch
             /\ reach' = fin.reach
             /\ merges' = fin.merges
             /\ log' = Append(fin.log, "return")
    /\ stage_pc' = "idle"
    /\ UNCHANGED <<stage_role, stages_run, branches, dirs, executor_failed,
                   at_commit, agent_return, written>>
    /\ UNCHANGED <<pipeVars, detectVars, pidVars, surfVars, verdVars>>

StageInit == PipelineIdle /\ StageIdle /\ DetectIdle /\ PidsIdle /\ SurfaceIdle /\ VerdictIdle

StageNext ==
    \/ \E role \in StageRoles : StageStart(role)
    \/ AgentExit
    \/ HumanEditsFile
    \/ HumanResponds

SpecStage == StageInit /\ [][StageNext]_vars

-----------------------------------------------------------------------------
\* check_for_escalation on a text, given as the lines of split('\n')

\* The lines explored: two marker lines (the markers are looked for in the
\* upper-cased line), an empty line, a line of spaces and another line.
Lines == {"BLOCKED: missing API credentials", "blocked: on review", "",
          "  ", "unrelated text"}

\* any(m in line.upper() for m in escalation_markers)
IsMarkerLine(line) ==
    line \in {"BLOCKED: missing API credentials", "blocked: on review"}

\* line.strip() == ""
IsBlank(line) == line \in {"", "  "}

\* The agent outputs explored: split('\n') gives at least one line.
Texts == UNION {[1..n -> Lines] : n \in 1..MaxLines}

\* The for loop of check_for_escalation from line i on: capturing starts at
\* the first marker line; every line is appended while capturing, and the
\* loop breaks after appending a blank line that is not the first captured
\* line.
RECURSIVE Capture(_, _, _, _)
Capture(lines, i, capturing, escalation_lines) ==
    IF i > Len(lines) THEN escalation_lines
    ELSE LET line == lines[i]
             now == capturing \/ IsMarkerLine(line)
             appended == Append(escalation_lines, line)
         IN  IF ~now THEN Capture(lines, i + 1, FALSE, escalation_lines)
             ELSE IF IsBlank(line) /\ Len(appended) > 1 THEN appended
             ELSE Capture(lines, i + 1, TRUE, appended)

CheckForEscalation_KeepsLines(lines) ==
    IF \E i \in 1..Len(lines) : IsMarkerLine(lines[i])
      THEN [called |-> TRUE, needs_human |-> TRUE,
            message |-> Capture(lines, 1, FALSE, escalation.message)]
      ELSE [called |-> TRUE, needs_human |-> FALSE, message |-> <<>>]

\* check_for_escalation(agent_output); the message '\n'.join(...) is kept as
\* the sequence of the lines joined.
CheckForEscalation(lines) ==
    IF \E i \in 1..Len(lines) : IsMarkerLine(lines[i])
      THEN [called |-> TRUE, needs_human |-> TRUE,
            message |-> Capture(lines, 1, FALSE, <<>>)]
      ELSE [called |-> TRUE, needs_human |-> FALSE, message |-> <<>>]

DetectInit ==
    /\ agent_output \in Texts
    /\ escalation = NoEscalation
    /\ detections = 0
    /\ PipelineIdle /\ StageIdle /\ PidsIdle /\ SurfaceIdle /\ VerdictIdle

\* check_for_escalation is called on the text (process_agent_output calls
\* it once; nothing keeps a caller from calling it again).
Detect ==
    /\ detections < MaxDetections
    /\ escalation' = CheckForEscalation(agent_output)
    /\ detections' = detections + 1
    /\ UNCHANGED agent_output
    /\ UNCHANGED <<pipeVars, stageVars, pidVars, surfVars, verdVars>>

DetectNext == Detect

SpecDetect == DetectInit /\ [][DetectNext]_vars

-----------------------------------------------------------------------------
\* Two runs on different workspaces inside run_agent

\* subprocess.Popen: the executor process of the role is started and has a
\* pid.  run_agent can be entered again after it returned or raised.
StartAgent(run, role) ==
    /\ run_pc[run] \in {"idle", "raised"}
    /\ next_pid <= MaxPids
    /\ run_pc' = [run_pc EXCEPT ![run] = "started"]
    /\ run_role' = [run_role EXCEPT ![run] = role]
    /\ run_pid' = [run_pid EXCEPT ![run] = next_pid]
    /\ next_pid' = next_pid + 1
    /\ UNCHANGED pid_files
    /\ UNCHANGED <<pipeVars, stageVars, detectVars, surfVars, verdVars>>

\* write_pid(role, process.pid): the file PIDS_DIR / "<role>.pid" is
\* (over)written; PIDS_DIR = BASE_DIR / "pids" does not depend on the
\* workspace.  Then run_agent waits in process.communicate().
WritePid(run) ==
    /\ run_pc[run] = "started"
    /\ pid_files' = [pid_files EXCEPT ![run_role[run]] = run_pid[run]]
    /\ run_pc' = [run_pc EXCEPT ![run] = "waiting"]
    /\ UNCHANGED <<run_role, run_pid, next_pid>>
    /\ UNCHANGED <<pipeVars, stageVars, detectVars, surfVars, verdVars>>

ClearPid_OnReturnOnly(files, role, raised) ==
    IF raised THEN files ELSE [files EXCEPT ![role] = 0]

\* The finally clause around process.communicate(): clear_pid(role) removes
\* the file if it exists, whether communicate returned or raised.
ClearPid(files, role, raised) == [files EXCEPT ![role] = 0]

\* process.communicate() returns, or raises (an interrupt while waiting);
\* the finally clause runs, and run_agent goes on or the exception leaves
\* it.
AgentDone(run) ==
    /\ run_pc[run] = "waiting"
    /\ \E raised \in BOOLEAN :
         /\ pid_files' = ClearPid(pid_files, run_role[run], raised)
         /\ run_pc' = [run_pc EXCEPT
                          ![run] = IF raised THEN "raised" ELSE "idle"]
    /\ run_role' = [run_role EXCEPT ![run] = "none"]
    /\ run_pid' = [run_pid EXCEPT ![run] = 0]
    /\ UNCHANGED next_pid
    /\ UNCHANGED <<pipeVars, stageVars, detectVars, surfVars, verdVars>>

PidsInit == PipelineIdle /\ StageIdle /\ DetectIdle /\ PidsIdle /\ SurfaceIdle /\ VerdictIdle

PidsNext ==
    \/ \E run \in Runs, role \in Roles : StartAgent(run, role)
    \/ \E run \in Runs : WritePid(run)
    \/ \E run \in Runs : AgentDone(run)

SpecPids == PidsInit /\ [][PidsNext]_vars
-----------------------------------------------------------------------------
\* The command surface: run_continuous, run_pipeline's checkpoints,
\* push_workspace

\* A checkpoint of the workspace's history: the run_pipeline call that made
\* it (0: it came with the clone, or push_workspace made it) and its kind.
Checkpoint(run, tag) == [run |-> run, tag |-> tag]

\* What run_pipeline can raise: the errors of the stage functions and of
\* the final report, and the interrupt of Ctrl+C.
Errors == {"IndexError", "FileNotFoundError"}

Raised == Errors \cup {"KeyboardInterrupt"}

\* read_queue(queue_path): the non-blank lines of the file, stripped.  The
\* file is held as its sequence of task lines, so this is the file.
ReadQueue(file) == file

PopTask_KeepsFirst(read) == [task |-> Head(read), remaining |-> read]

\* pop_task_from_queue after read_queue: the first task, and the remaining
\* tasks that are written back.
PopTask(read) == [task |-> Head(read), remaining |-> Tail(read)]

Caught_IndexErrorOnly(e) == e = "IndexError"

\* except Exception as e, around run_pipeline in run_continuous.
Caught(e) == e \in Errors

\* init_workspace, then the start of run_pipeline: the commits made before
\* the first iteration.  repo: .git exists; import: an understanding was
\* loaded and SHARED_UNDERSTANDING.md differs from what is committed.
StartCommits(run, repo, import) ==
    (IF repo THEN <<>> ELSE <<Checkpoint(run, "init")>>)
    \o (IF import THEN <<Checkpoint(run, "understanding")>> ELSE <<>>)
    \o <<Checkpoint(run, "task")>>

\* push_workspace's clean-up: the artifact files and role directories are
\* removed, and the removal is committed when there was something to remove.
CleanUp(h) ==
    IF h # <<>> /\ h[Len(h)].tag \in {"task", "stage", "final"}
      THEN Append(h, Checkpoint(0, "cleanup"))
      ELSE h

\* git log origin/main..HEAD: the commits after those of origin/main; the
\* command fails and prints nothing when there is no origin.
CommitCount(h, has_origin, at) == IF has_origin THEN Len(h) - at ELSE 0

Squash_Never(h, at, kept) == h

\* git reset --soft origin/main, then git commit: the history goes back to
\* that of origin/main, and one commit follows when the index differs from
\* it.
Squash(h, at, kept) ==
    SubSeq(h, 1, at) \o
    (IF kept THEN <<Checkpoint(0, "squash")>> ELSE <<>>)

\* The branch checked out when the first run starts: init_workspace_from
\* ends with git checkout -b multiagent-work; init_workspace leaves the
\* branch git init made.
WorkingBranch(is_clone) == IF is_clone THEN "multiagent-work" ELSE "main"

\* merge_to_main(role) at the end of every stage: git checkout main, then
\* the merge; main stays checked out.
MergeToMain(current) == "main"

\* The clean-up loop of push_workspace unlinks every file matching
\* ARTIFACT_PATTERNS, of which TASK.md is the first: whether TASK.md
\* exists afterwards.
CleanUpFiles(exists) == FALSE

\* The first line of the squash commit's message: the text of TASK.md if
\* the file exists when the squash is made, else the fallback.
SquashMessage(exists) ==
    IF exists THEN "task description" ELSE "multiagent-loop changes"

\* The branch push_workspace pushes: the checked-out branch (git branch
\* --show-current) with create_pr, else main after it was checked out and
\* the checked-out branch merged into it.
PushedBranch(create_pr, current) == IF create_pr THEN current ELSE "main"

\* A writer outside the supervisor appends a task line to the queue file.
AppendTask ==
    /\ next_task <= MaxTasks
    /\ queue' = Append(queue, next_task)
    /\ next_task' = next_task + 1
    /\ concurrent_write' = (concurrent_write \/ loop_pc = "popped")
    /\ UNCHANGED <<current_branch, task_file, pushed, squash_message>>
    /\ UNCHANGED <<loop_pc, tasks, task, tasks_completed, outcomes,
                   errors_logged, history, origin, cloned, understanding,
                   shared_saved, run_commits, pushes>>
    /\ UNCHANGED <<pipeVars, stageVars, detectVars, pidVars, verdVars>>

\* pop_task_from_queue, first half: read_queue.  An empty queue makes
\* run_continuous sleep and come back to the same place.
PopRead ==
    /\ loop_pc = "pop"
    /\ ReadQueue(queue) # <<>>
    /\ tasks' = ReadQueue(queue)
    /\ loop_pc' = "popped"
    /\ UNCHANGED <<current_branch, task_file, pushed, squash_message>>
    /\ UNCHANGED <<queue, task, tasks_completed, outcomes, errors_logged,
                   history, origin, cloned, understanding, shared_saved,
                   next_task, concurrent_write,
                   run_commits, pushes>>
    /\ UNCHANGED <<pipeVars, stageVars, detectVars, pidVars, verdVars>>

\* pop_task_from_queue, second half: the remaining tasks are written back
\* and the first is returned; run_continuous counts it and calls
\* run_pipeline, which initialises the workspace, imports the understanding
\* and saves and commits the task statement.
PopWrite ==
    /\ loop_pc = "popped"
    /\ LET popped == PopTask(tasks)
           import == understanding /\ ~shared_saved
       IN  /\ queue' = popped.remaining
           /\ task' = popped.task
           /\ history' = history \o
                  StartCommits(tasks_completed + 1, history # <<>>, import)
           /\ shared_saved' = (shared_saved \/ import)
    /\ tasks_completed' = tasks_completed + 1
    /\ run_commits' = 0
    /\ loop_pc' = "run"
    /\ task_file' = TRUE
    /\ UNCHANGED <<current_branch, pushed, squash_message>>
    /\ UNCHANGED <<tasks, outcomes, errors_logged, origin, cloned,
                   understanding, next_task, concurrent_write,
                   pushes>>
    /\ UNCHANGED <<pipeVars, stageVars, detectVars, pidVars, verdVars>>

\* A stage of the run makes its commit on the role's branch, and
\* process_agent_output merges the role's branch to main, which stays
\* checked out.
StageCommit ==
    /\ loop_pc = "run"
    /\ run_commits < MaxRunCommits
    /\ current_branch' = MergeToMain(current_branch)
    /\ UNCHANGED <<task_file, pushed, squash_message>>
    /\ history' = Append(history, Checkpoint(tasks_completed, "stage"))
    /\ run_commits' = run_commits + 1
    /\ UNCHANGED <<queue, loop_pc, tasks, task, tasks_completed, outcomes,
                   errors_logged, origin, cloned, understanding,
                   shared_saved, next_task, concurrent_write, pushes>>
    /\ UNCHANGED <<pipeVars, stageVars, detectVars, pidVars, verdVars>>

\* run_pipeline, after its iterations and their stages, writes and commits
\* the final report and returns.
RunReturns ==
    /\ loop_pc = "run"
    /\ run_commits >= 1
    /\ UNCHANGED <<current_branch, task_file, pushed, squash_message>>
    /\ history' = Append(history, Checkpoint(tasks_completed, "final"))
    /\ outcomes' = Append(outcomes, [task |-> task, ended |-> "returned"])
    /\ loop_pc' = "pop"
    /\ UNCHANGED <<queue, tasks, task, tasks_completed, errors_logged,
                   origin, cloned, understanding, shared_saved, next_task,
                   concurrent_write, run_commits, pushes>>
    /\ UNCHANGED <<pipeVars, stageVars, detectVars, pidVars, verdVars>>

\* run_pipeline raises.  The except clause of run_continuous logs the
\* error and the loop goes on; Ctrl+C ends run_continuous.
RunRaises ==
    /\ loop_pc = "run"
    /\ UNCHANGED <<current_branch, task_file, pushed, squash_message>>
    /\ \E e \in Raised :
         /\ outcomes' = Append(outcomes, [task |-> task, ended |-> e])
         /\ errors_logged' = IF Caught(e)
                               THEN errors_logged \cup {tasks_completed}
                               ELSE errors_logged
         /\ loop_pc' = IF Caught(e) THEN "pop"
                       ELSE IF e = "KeyboardInterrupt" THEN "stopped"
                       ELSE "crashed"
    /\ UNCHANGED <<queue, tasks, task, tasks_completed, history, origin,
                   cloned, understanding, shared_saved, next_task,
                   concurrent_write, run_commits, pushes>>
    /\ UNCHANGED <<pipeVars, stageVars, detectVars, pidVars, verdVars>>

\* push_workspace(branch="main", create_pr, squash), called between runs:
\* clean-up, squash when more than one commit is ahead of origin/main, then
\* either the push of the checked-out branch for a pull request or the
\* merge into main and the push of main; the push fails without an origin
\* and may fail with one.
PushWorkspace ==
    /\ loop_pc \in {"pop", "stopped"}
    /\ history # <<>>
    /\ pushes < MaxPushes
    /\ pushes' = pushes + 1
    /\ \E create_pr \in BOOLEAN, squash \in BOOLEAN, kept \in BOOLEAN,
          push_ok \in BOOLEAN :
         LET cleaned == CleanUp(history)
             left == CleanUpFiles(task_file)
             count == CommitCount(cleaned, cloned, origin)
             squashed == squash /\ count > 1
             h == IF squashed THEN Squash(cleaned, origin, kept)
                              ELSE cleaned
             target == PushedBranch(create_pr, current_branch)
             onto_main == cloned /\ push_ok /\ target = "main"
         IN  /\ history' = h
             /\ task_file' = left
             /\ squash_message' = IF squashed /\ kept
                                    THEN SquashMessage(left)
                                    ELSE squash_message
             /\ origin' = IF onto_main THEN Len(h) ELSE origin
             /\ current_branch' = target
             /\ pushed' = [branch |-> target, pr |-> create_pr,
                           onto_main |-> onto_main]
    /\ UNCHANGED <<queue, loop_pc, tasks, task, tasks_completed, outcomes,
                   errors_logged, cloned, understanding, shared_saved,
                   next_task, concurrent_write, run_commits>>
    /\ UNCHANGED <<pipeVars, stageVars, detectVars, pidVars, verdVars>>

\* run_continuous is called, on a workspace that does not exist yet or on
\* one made by init_workspace_from, with or without --understanding.
SurfaceInit ==
    /\ PipelineIdle /\ StageIdle /\ DetectIdle /\ PidsIdle /\ VerdictIdle
    /\ queue = <<>>
    /\ loop_pc = "pop"
    /\ tasks = <<>>
    /\ task = 0
    /\ tasks_completed = 0
    /\ outcomes = <<>>
    /\ errors_logged = {}
    /\ cloned \in BOOLEAN
    /\ history = IF cloned THEN <<Checkpoint(0, "origin")>> ELSE <<>>
    /\ origin = IF cloned THEN 1 ELSE 0
    /\ understanding \in BOOLEAN
    /\ shared_saved = FALSE
    /\ next_task = 1
    /\ concurrent_write = FALSE
    /\ run_commits = 0
    /\ pushes = 0
    /\ current_branch = WorkingBranch(cloned)
    /\ task_file = FALSE
    /\ pushed = NoPush
    /\ squash_message = "none"

SurfaceNext ==
    \/ AppendTask
    \/ PopRead
    \/ PopWrite
    \/ StageCommit
    \/ RunReturns
    \/ RunRaises
    \/ PushWorkspace

SpecSurface == SurfaceInit /\ [][SurfaceNext]_vars

-----------------------------------------------------------------------------
\* Two runs at the same stage with the same agent response

\* The roles whose stage function returns a verdict.
VerdictRoles == {"reviewer", "tester", "user"}

\* What the human can answer: any text, here by the verdict words of the
\* role that occur in it.
HumanTexts(role) == SUBSET Markers(role)

\* process_agent_output(agent_name, output, iteration), by the words of the
\* text: with an escalation in the output the human's response is appended
\* under a heading.
ProcessAgentOutput(response, human) ==
    IF NeedsHuman(response)
      THEN response \cup {"## Human Response"} \cup human
      ELSE response

\* The verdict a stage function computes from a text.
Verdict(role, text) ==
    CASE role = "reviewer" -> ReviewerApproved([words |-> text])
      [] role = "tester"   -> TesterPassed([words |-> text])
      [] OTHER             -> UserSatisfied([words |-> text])

VerdictSource_Processed(response, processed) == processed

\* The text the kept verdict is computed from: run_iteration keeps
\* review_result["approved"], test_result["tests_passed"] and
\* user_result["satisfied"], which the stage function computed from the
\* agent's response, not from what process_agent_output returned.
VerdictSource(response, processed) == response

\* The agent call that follows the stage while the loop bounds are not
\* reached: the breaks of loop A, loop B and the iteration loop.
NextStage(role, verdict) ==
    CASE role = "reviewer" -> IF BreakOnApproved(verdict)
                                THEN "tester" ELSE "implementer"
      [] role = "tester"   -> IF verdict THEN "user" ELSE "implementer"
      [] OTHER             -> IF BreakOnSatisfied(verdict)
                                THEN "report" ELSE "planner"

\* One run goes through the stage: the stage function, the escalation
\* exchange with whatever the human answers, and the verdict run_iteration
\* keeps.
RunStage(run) ==
    /\ v_stage[run] = "idle"
    /\ \E human \in HumanTexts(v_role) :
         LET answer == IF NeedsHuman(v_response) THEN human ELSE {}
             processed == ProcessAgentOutput(v_response, answer)
             verdict == Verdict(v_role, VerdictSource(v_response, processed))
         IN  /\ v_human' = [v_human EXCEPT ![run] = answer]
             /\ v_output' = [v_output EXCEPT ![run] = processed]
             /\ v_verdict' = [v_verdict EXCEPT ![run] = verdict]
             /\ v_next' = [v_next EXCEPT ![run] = NextStage(v_role, verdict)]
    /\ v_stage' = [v_stage EXCEPT ![run] = "done"]
    /\ UNCHANGED <<v_role, v_response>>
    /\ UNCHANGED <<pipeVars, stageVars, detectVars, pidVars, surfVars>>

VerdictInit ==
    /\ PipelineIdle /\ StageIdle /\ DetectIdle /\ PidsIdle /\ SurfaceIdle
    /\ v_role \in VerdictRoles
    /\ v_response \in SUBSET (Markers(v_role) \cup {EscalationMarker})
    /\ v_stage = [r \in Runs |-> "idle"]
    /\ v_human = [r \in Runs |-> {}]
    /\ v_output = [r \in Runs |-> {}]
    /\ v_verdict = [r \in Runs |-> FALSE]
    /\ v_next = [r \in Runs |-> "none"]

VerdictNext == \E run \in Runs : RunStage(run)

SpecVerdict == VerdictInit /\ [][VerdictNext]_vars


-----------------------------------------------------------------------------
\* Reading the record of calls

LastCall == calls[Len(calls)]

LastCallIs(role) == calls # <<>> /\ LastCall.role = role

\* The last call was made by the role and returned the role's entry of
\* results (a stage function that raised returned nothing).
ReturnedLast(role) ==
    /\ LastCallIs(role)
    /\ LastCall.out # NoOutput.id
    /\ LastCall.out = results[role].id

\* The implementer calls made from loop A / loop B.
LoopACalls == SelectSeq(calls, LAMBDA c : c.role = "implementer" /\ c.site = "A")

LoopBCalls == SelectSeq(calls, LAMBDA c : c.role = "implementer" /\ c.site = "B")

\* Index in calls of the k-th call of a role.
PosOf(role, k) ==
    CHOOSE i \in 1..Len(calls) :
        /\ calls[i].role = role
        /\ Cardinality({j \in 1..i : calls[j].role = role}) = k

\* Number of implementer calls among the first pos calls.
ImplementersUpTo(pos) ==
    Cardinality({j \in 1..pos : calls[j].role = "implementer"})

\* Output of the last implementer call among the first pos calls.
LastImplementationUpTo(pos) ==
    LET last == CHOOSE j \in 1..pos :
                    /\ calls[j].role = "implementer"
                    /\ \A l \in (j + 1)..pos : calls[l].role # "implementer"
    IN  calls[last].out

\* Every call of cs returned, with a negative verdict.
AllFailed(cs) ==
    \A j \in 1..Len(cs) : cs[j].out # NoOutput.id /\ ~cs[j].verdict

Terminated == pc \in {"done", "error"}

-----------------------------------------------------------------------------
\* C1: in every iteration loop A makes at most max_inner_iterations
\* implementer calls and at most max_inner_iterations reviewer calls,
\* whatever the reviewer answers.
C1_LoopABounded ==
    /\ Len(LoopACalls) <= max_inner_iterations
    /\ Len(CallsOf("reviewer")) <= max_inner_iterations

\* Loop A has used all its rounds (more than one).
C1_Witness ==
    /\ max_inner_iterations >= 2
    /\ Len(LoopACalls) = max_inner_iterations
    /\ Len(CallsOf("reviewer")) = max_inner_iterations

\* C2: when the reviewer answers NEEDS_CHANGES in rounds 1..k-1 and APPROVED
\* in round k (k <= max_inner_iterations), loop A has called the implementer
\* exactly k times and the reviewer exactly k times, and the next stage
\* called is the tester.
C2_ApprovedInRoundK ==
    \A k \in 1..max_inner_iterations :
        LET revs == CallsOf("reviewer")
        IN  (/\ Len(revs) >= k
             /\ revs[k].verdict
             /\ \A j \in 1..(k - 1) : ~revs[j].verdict)
            => LET pos == PosOf("reviewer", k)
               IN  /\ Len(revs) = k
                   /\ Len(LoopACalls) = k
                   /\ ImplementersUpTo(pos) = k
                   /\ IF Len(calls) = pos
                        THEN pc = "tester"
                        ELSE calls[pos + 1].role = "tester"

\* NEEDS_CHANGES twice, APPROVED in round 3, and the tester has been called.
C2_Witness ==
    LET revs == CallsOf("reviewer")
    IN  /\ max_inner_iterations = 3
        /\ Len(revs) = 3
        /\ ~revs[1].verdict /\ ~revs[2].verdict /\ revs[3].verdict
        /\ Len(LoopACalls) = 3
        /\ LastCallIs("tester")

\* C3: when the reviewer answers NEEDS_CHANGES in all max_inner_iterations
\* rounds, the next stage called is the tester, on the output of the last
\* implementer call, with no implementer or reviewer call in between.
C3_ReviewExhaustedGoesToTester ==
    LET revs == CallsOf("reviewer")
    IN  (Len(revs) = max_inner_iterations /\ AllFailed(revs))
        => LET pos == PosOf("reviewer", max_inner_iterations)
           IN  IF Len(calls) = pos
                 THEN pc = "tester"
                 ELSE /\ calls[pos + 1].role = "tester"
                      /\ calls[pos + 1].input = LastImplementationUpTo(pos)

\* Every review round asked for changes and the tester has been called.
C3_Witness ==
    LET revs == CallsOf("reviewer")
    IN  /\ max_inner_iterations >= 2
        /\ Len(revs) = max_inner_iterations
        /\ AllFailed(revs)
        /\ LastCallIs("tester")

\* C4: in every iteration loop B calls the tester at most
\* max_inner_iterations times and re-runs the implementer at most
\* max_inner_iterations times, whatever the tester answers.
C4_LoopBBounded ==
    /\ Len(CallsOf("tester")) <= max_inner_iterations
    /\ Len(LoopBCalls) <= max_inner_iterations

\* Loop B has used all its rounds (more than one).
C4_Witness ==
    /\ max_inner_iterations >= 2
    /\ Len(CallsOf("tester")) = max_inner_iterations
    /\ Len(LoopBCalls) = max_inner_iterations - 1

\* C5: when the tester answers TESTS_FAILED in every round until the bound
\* is used up, the next stage called is the user, on the last
\* implementation, and the iteration completes: its results are appended
\* and the pipeline goes on.
C5_TestExhaustedGoesToUser ==
    LET tests == CallsOf("tester")
    IN  (Len(tests) = max_inner_iterations /\ AllFailed(tests))
        => LET pos == PosOf("tester", max_inner_iterations)
           IN  IF Len(calls) = pos
                 THEN pc = "user"
                 ELSE /\ calls[pos + 1].role = "user"
                      /\ calls[pos + 1].input = LastImplementationUpTo(pos)
                      /\ Len(calls) = pos + 1
                      /\ Len(all_results) >= calls[pos + 1].out[1]
                      /\ pc \in {"planner", "report", "done"}

\* Every test round failed and the user stage has run.
C5_Witness ==
    LET tests == CallsOf("tester")
    IN  /\ max_inner_iterations >= 2
        /\ Len(tests) = max_inner_iterations
        /\ AllFailed(tests)
        /\ Len(LoopBCalls) = max_inner_iterations - 1
        /\ LastCallIs("user")

\* C6: when the user verdict of iteration k is SATISFIED, no further stage
\* is called: iteration k is the last one, the last call stays the user call
\* of iteration k, and the run ends COMPLETE with final_satisfied true and
\* exactly k iterations.
C6_SatisfiedEndsRun ==
    \A k \in 1..Len(all_results) :
        all_results[k].user_satisfied
        => /\ k = Len(all_results)
           /\ iteration = k
           /\ pc \in {"report", "done"}
           /\ LastCallIs("user")
           /\ LastCall.out[1] = k
           /\ LastCall.verdict
           /\ pc = "done" => final = [status |-> "COMPLETE",
                                      iterations |-> k,
                                      final_satisfied |-> TRUE]

\* The user was satisfied in iteration 1 although more iterations were
\* allowed, and the run has ended.
C6_Witness ==
    /\ max_iterations >= 2
    /\ pc = "done"
    /\ Len(all_results) = 1
    /\ all_results[1].user_satisfied
    /\ final.status = "COMPLETE"

\* C7: run_pipeline never runs more than max_iterations iterations; when the
\* user verdict is NEEDS_IMPROVEMENT in every iteration it runs exactly
\* max_iterations iterations and ends INCOMPLETE (final_satisfied false),
\* not in an error.
C7_ExhaustedEndsIncomplete ==
    /\ Len(all_results) <= max_iterations
    /\ (/\ Terminated
        /\ \A k \in 1..Len(all_results) : ~all_results[k].user_satisfied)
       => /\ pc = "done"
          /\ Len(all_results) = max_iterations
          /\ final = [status |-> "INCOMPLETE",
                      iterations |-> max_iterations,
                      final_satisfied |-> FALSE]

\* C8: for every max_iterations the command surface accepts (0 included) and
\* every sequence of agent outputs, run_pipeline ends DONE or INCOMPLETE
\* with the final report written, never by an unhandled error.
C8_EndsWithReport ==
    Terminated
    => /\ pc = "done"
       /\ final.status \in {"COMPLETE", "INCOMPLETE"}
       /\ "FINAL_REPORT.md" \in artifacts

\* C9 as stated: a reviewer or tester output without a verdict marker is
\* treated as passing, so the inner loop exits and the pipeline moves on
\* without re-running the implementer.
C9_NoMarkerPasses ==
    /\ (ReturnedLast("reviewer") /\ results.reviewer.words = {})
       => (results.approved /\ pc = "tester")
    /\ (ReturnedLast("tester") /\ results.tester.words = {})
       => (results.tests_passed /\ pc = "user")

\* C9 amended: a reviewer or tester output without a verdict marker is
\* treated as not passing (NEEDS_CHANGES, tests failed): the implementer is
\* re-run while rounds remain, and the pipeline moves forward only when
\* max_inner_iterations rounds are used up.
C9_NoMarkerFails ==
    /\ (ReturnedLast("reviewer") /\ results.reviewer.words = {})
       => /\ ~results.approved
          /\ ~LastCall.verdict
          /\ pc = IF Len(CallsOf("reviewer")) < max_inner_iterations
                    THEN "implementer_a" ELSE "tester"
    /\ (ReturnedLast("tester") /\ results.tester.words = {})
       => /\ ~results.tests_passed
          /\ ~LastCall.verdict
          /\ pc = IF Len(CallsOf("tester")) < max_inner_iterations
                    THEN "implementer_b" ELSE "user"

\* A review without any marker in the first round sent the pipeline back to
\* the implementer.
C9_Witness ==
    /\ ReturnedLast("reviewer")
    /\ results.reviewer.words = {}
    /\ Len(CallsOf("reviewer")) = 1
    /\ pc = "implementer_a"

\* C10: a user output without a verdict marker counts as NOT satisfied; a
\* run never ends DONE on a user output that lacks the SATISFIED marker.
C10_UserDefaultsToNotSatisfied ==
    /\ (results.user # NoOutput /\ results.user.words = {})
       => /\ ~results.user_satisfied
          /\ all_results # <<>>
          /\ ~all_results[Len(all_results)].user_satisfied
          /\ final.status # "COMPLETE"
    /\ (pc = "done" /\ final.final_satisfied)
       => Contains(results.user, "SATISFIED")

\* The last user output had no marker and the run ended INCOMPLETE.
C10_Witness ==
    /\ pc = "done"
    /\ results.user # NoOutput
    /\ results.user.words = {}
    /\ final.status = "INCOMPLETE"

-----------------------------------------------------------------------------
\* Reading the record of a stage invocation

Has(lg, event) == \E i \in 1..Len(lg) : lg[i] = event

Count(lg, event) == Cardinality({i \in 1..Len(lg) : lg[i] = event})

\* Both events occurred, every first before every second.
Before(lg, first, second) ==
    /\ Has(lg, first)
    /\ Has(lg, second)
    /\ \A i, j \in 1..Len(lg) :
           (lg[i] = first /\ lg[j] = second) => i < j

\* The commits the current stage invocation made through a given call.
StageCommits(by) ==
    {i \in 1..Len(commits) :
        commits[i].stage = stages_run /\ commits[i].by = by}

\* The stage invocation escalated and process_agent_output has returned.
Resolved == stage_pc = "idle" /\ output.esc

\* C11: a stage returns a result for every executor outcome and never
\* raises to the orchestrator; when the executor exited with a failure and
\* diagnostic text, the stage output is the error envelope holding the
\* diagnostic and the partial output.
C11_StageAlwaysReturns ==
    /\ stage_pc # "raised"
    /\ (stage_pc \in {"awaiting", "idle"} /\ executor_failed)
       => {"Error:", "stderr", "stdout"} \subseteq output.parts

\* C12: a failing reviewer, tester or user call whose error envelope has no
\* verdict marker counts as a negative verdict, and a run in which every
\* agent call fails that way drives each loop to its bound and ends
\* INCOMPLETE after max_iterations iterations, not in an error.
C12_FailingExecutorEndsIncomplete ==
    /\ (only_failures /\ ReturnedLast("reviewer")) => ~results.approved
    /\ (only_failures /\ ReturnedLast("tester")) => ~results.tests_passed
    /\ (only_failures /\ ReturnedLast("user")) => ~results.user_satisfied
    /\ (only_failures /\ calls # <<>> /\ Terminated)
       => /\ pc = "done"
          /\ final.status = "INCOMPLETE"
          /\ Len(all_results) = max_iterations
          /\ Len(LoopACalls) = max_inner_iterations
          /\ Len(CallsOf("reviewer")) = max_inner_iterations
          /\ Len(CallsOf("tester")) = max_inner_iterations

\* The lines from the first marker line up to, not including, the first
\* blank line after it.
ExpectedMessage(lines) ==
    LET first == CHOOSE i \in 1..Len(lines) :
                     /\ IsMarkerLine(lines[i])
                     /\ \A j \in 1..(i - 1) : ~IsMarkerLine(lines[j])
        blanks == {j \in (first + 1)..Len(lines) : IsBlank(lines[j])}
        stop == IF blanks = {} THEN Len(lines) + 1
                ELSE CHOOSE j \in blanks : \A k \in blanks : j <= k
    IN  SubSeq(lines, first, stop - 1)

\* C13: the escalation message check_for_escalation returns is exactly the
\* lines from the first marker line up to, and not including, the first
\* following blank line.
C13_MessageStopsBeforeBlank ==
    (escalation.called /\ escalation.needs_human)
    => escalation.message = ExpectedMessage(agent_output)

\* C14: when the human gives neither console input nor an edit of the
\* escalation file, request_human_input returns the no-response sentinel
\* (and the stage invocation goes on to its end).
C14_NoResponseYieldsSentinel ==
    (Resolved /\ Has(log, "console_nothing") /\ esc_file = "template")
    => human_response = "sentinel"

\* C15: every escalation resolution, the one without a response included,
\* makes its own new commit tagged [human].
C15_EveryResolutionCommits ==
    Resolved
    => \E i \in StageCommits("request_human_input") :
           commits[i].tag = "human"

C17_OneMergePerStage ==
    /\ stage_pc \in {"running", "awaiting"}
       => /\ merges = stages_run - 1
          /\ ~Has(log, "merge")
          /\ branch = stage_role
    /\ stage_pc = "idle"
       => /\ merges = stages_run
          /\ branch = "main"
          /\ stages_run > 0
             => /\ Count(log, "merge") = 1
                /\ Before(log, "stage_commit", "merge")
                /\ log[Len(log) - 1] = "merge"

\* Two stage invocations have returned, the second after a failed
\* executor, and two merges were attempted.
C17_Witness ==
    /\ stage_pc = "idle"
    /\ stages_run = 2
    /\ executor_failed
    /\ merges = 2
    /\ Count(log, "merge") = 1

\* C18: every file a stage of role R writes (the stage document and the
\* files extracted from the output) lies in R's own subdirectory, so never
\* in another role's subdirectory.
C18_WritesOnlyInOwnSubdir ==
    \A w \in written : w[2] = w[1]

\* C19: a run shares no mutable state with a run on another workspace: the
\* PID record a run wrote for its running agent is neither overwritten nor
\* deleted by the other run.
C19_RunsShareNothing ==
    \A run \in Runs :
        run_pc[run] = "waiting" => pid_files[run_role[run]] = run_pid[run]

\* C20: commit_agent_work(role) makes no commit and returns false (no note
\* in run_agent's output) when the role's subdirectory has no changes, and
\* makes exactly one commit and returns true when it has.
C20_CommitOnlyWhenChanged ==
    (stages_run > 0 /\ stage_pc # "running")
    => IF stage_role \in at_commit
         THEN /\ Cardinality(StageCommits("commit_agent_work")) = 1
              /\ "[Committed changes]" \in agent_return
         ELSE /\ StageCommits("commit_agent_work") = {}
              /\ "[Committed changes]" \notin agent_return

\* The agent changed files in the workspace directory but none in its own
\* subdirectory, and commit_agent_work committed nothing.
C20_Witness ==
    /\ stage_pc = "idle"
    /\ stages_run > 0
    /\ at_commit = {RootDir}
    /\ StageCommits("commit_agent_work") = {}

\* The merge of the role's branch into main at the end of the current stage
\* invocation failed: the stage has returned and its commits are not on
\* main.
FinalMergeFailed ==
    /\ stage_pc = "idle"
    /\ Has(log, "merge")
    /\ \E i \in 1..Len(commits) :
           commits[i].stage = stages_run /\ i \notin reach["main"]

\* C21: a failed merge never aborts the run: after a failed merge of main
\* into the role's branch the executor is started as after a successful
\* one; a stage invocation only ever aborts in the stage function's file
\* writes; after a failed merge of the role's branch into main
\* process_agent_output returns to the orchestrator with main checked out,
\* as after a successful one, so the same next stage follows.
C21_MergeFailureNotFatal ==
    /\ (Has(log, "merge_main_failed") /\ Len(log) = 2)
       => stage_pc = "running"
    /\ stage_pc = "raised" => log[Len(log)] = "raise"
    /\ FinalMergeFailed
       => /\ log[Len(log)] = "return"
          /\ branch = "main"
          /\ merges = stages_run

\* The merge into main failed at the end of the first stage invocation,
\* the merge of main failed at the start of the second, and the second
\* executor is running.
C21_Witness ==
    /\ stages_run = 2
    /\ stage_pc = "running"
    /\ Has(log, "merge_main_failed")
    /\ \E i \in 1..Len(commits) :
           commits[i].stage = 1 /\ i \notin reach["main"]


\* The stage invocation is between setup_agent_branch and merge_to_main.
StageInProgress == stage_pc \in {"running", "awaiting", "raised"}

\* C29: every commit made by a stage of role R (the auto-commit, the stage
\* function's commit and the commit made while an escalation is resolved)
\* is made on R's branch; while the stage is in progress none of its commits
\* is on main, and a commit that is on main is also on the role branch it
\* was made on; when process_agent_output has returned, main is checked out.
C29_RoleBranchIsolation ==
    /\ \A i \in 1..Len(commits) :
         commits[i].stage >= 1 =>
           /\ commits[i].tag \in Roles => commits[i].branch = commits[i].tag
           /\ commits[i].tag = "human" =>
                \E j \in 1..Len(commits) :
                    /\ commits[j].stage = commits[i].stage
                    /\ commits[j].tag \in Roles
                    /\ commits[j].branch = commits[j].tag
                    /\ commits[i].branch = commits[j].tag
           /\ i \in reach["main"] => i \in reach[commits[i].branch]
           /\ (StageInProgress /\ commits[i].stage = stages_run)
                => i \notin reach["main"]
    /\ StageInProgress => branch = stage_role
    /\ stage_pc = "idle" => branch = "main"

C29_Witness ==
    /\ stage_pc = "idle"
    /\ stages_run = 2
    /\ \E i, j \in 1..Len(commits) :
         /\ commits[i].tag = "human" /\ commits[i].stage = 2
         /\ commits[j].by = "commit_agent_work" /\ commits[j].stage = 2
         /\ {i, j} \subseteq reach["main"]

\* C22: in continuous mode an error raised by a task's pipeline run is
\* caught and logged under the task's number, run_continuous is not ended
\* by it, and after it the loop stands again at the pop of the next task.
C22_FailingTaskDoesNotStopQueue ==
    /\ loop_pc # "crashed"
    /\ \A k \in 1..Len(outcomes) :
         outcomes[k].ended \in Errors => k \in errors_logged
    /\ (/\ outcomes # <<>>
        /\ Len(outcomes) = tasks_completed
        /\ outcomes[Len(outcomes)].ended \in Errors)
       => loop_pc \in {"pop", "popped"}

C22_Witness ==
    /\ Len(outcomes) = 2
    /\ outcomes[1].ended = "FileNotFoundError"
    /\ outcomes[2].ended = "returned"
    /\ outcomes[1].task # outcomes[2].task

\* C27: the first checkpoint a run makes is the checkpoint of its task
\* statement, and the run makes that checkpoint once.
C27_TaskCheckpointFirst ==
    \A i \in 1..Len(history) :
        history[i].run >= 1 =>
          /\ (\A j \in 1..(i - 1) : history[j].run # history[i].run)
               => history[i].tag = "task"
          /\ history[i].tag = "task"
               => \A j \in 1..(i - 1) : history[j].run # history[i].run

\* C28: every step leaves the checkpoints already in the history where
\* they are, and can only add checkpoints after them.
C28_AppendOnly ==
    [][/\ Len(history') >= Len(history)
       /\ SubSeq(history', 1, Len(history)) = history]_vars

\* C23: the cumulative understanding document holds the understanding of
\* each iteration before the current one, once each and in ascending order
\* (every update adds at the end of what was there); when the run has
\* ended after n iterations it holds those of iterations 1..n-1.
C23_CumulativeUnderstanding ==
    /\ cumulative = [i \in 1..(IF iteration = 0 THEN 0 ELSE iteration - 1)
                       |-> i]
    /\ pc = "done" => Len(cumulative) = final.iterations - 1

C23_Witness ==
    /\ pc = "done"
    /\ final.status = "COMPLETE"
    /\ final.iterations = 3
    /\ cumulative = <<1, 2>>

\* C24: the planner of iteration 1 is called without user feedback; the
\* planner of iteration k+1 is called with the whole user output of
\* iteration k, which was not satisfied, and only while k < max_iterations.
C24_UserFeedbackThreaded ==
    /\ (pc = "planner" /\ iteration = 1) => user_feedback = NoOutput
    /\ (pc = "planner" /\ iteration > 1) =>
         /\ user_feedback = results.user
         /\ user_feedback.id = <<iteration - 1, "user", 1>>
         /\ ~results.user_satisfied
         /\ iteration <= max_iterations
    /\ (pc # "planner" /\ calls # <<>>) =>
         /\ calls[1].role = "planner"
         /\ calls[1].fb = user_feedback.id
         /\ calls[1].fb = IF iteration = 1 THEN NoOutput.id
                          ELSE <<iteration - 1, "user", 1>>

C24_Witness ==
    /\ iteration = 2
    /\ pc = "implementer_a"
    /\ calls[1].role = "planner"
    /\ calls[1].fb = <<1, "user", 1>>

\* C25: the first implementer call of an iteration gets no feedback; every
\* later implementer call of loop A gets the output of the reviewer call
\* just before it, every implementer call of loop B gets the output of the
\* failed tester call just before it, and a loop-B implementer call that
\* returned is followed by a tester call.
C25_FeedbackThreaded ==
    /\ \A j \in 1..Len(calls) :
         calls[j].role = "implementer" =>
           IF calls[j].site = "A"
             THEN IF \A i \in 1..(j - 1) : calls[i].role # "implementer"
                    THEN calls[j].fb = NoOutput.id
                    ELSE /\ calls[j - 1].role = "reviewer"
                         /\ ~calls[j - 1].verdict
                         /\ calls[j].fb = calls[j - 1].out
             ELSE /\ calls[j - 1].role = "tester"
                  /\ ~calls[j - 1].verdict
                  /\ calls[j].fb = calls[j - 1].out
                  /\ j < Len(calls) => calls[j + 1].role = "tester"
                  /\ (j = Len(calls) /\ calls[j].out # NoOutput.id)
                       => pc = "tester"
    /\ (pc = "implementer_a" /\ inner_iteration > 1)
         => reviewer_feedback = results.reviewer
    /\ pc = "implementer_b"
         => /\ tester_feedback.id = results.tester.id
            /\ tester_feedback.words = results.tester.words

C25_Witness ==
    \E j, k \in 1..Len(calls) :
        /\ j < k /\ k < Len(calls)
        /\ calls[j].role = "implementer" /\ calls[j].site = "A"
        /\ calls[j].fb # NoOutput.id
        /\ calls[k].role = "implementer" /\ calls[k].site = "B"
        /\ calls[k + 1].role = "tester"

\* The agent call d may come right after the agent call c in an iteration.
Follows(c, d) ==
    CASE c.role = "planner"  -> d.role = "implementer" /\ d.site = "A"
      [] c.role = "implementer" /\ c.site = "A" -> d.role = "reviewer"
      [] c.role = "reviewer" -> \/ d.role = "implementer" /\ d.site = "A"
                                \/ d.role = "tester"
      [] c.role = "tester"   -> \/ d.role = "implementer" /\ d.site = "B"
                                \/ d.role = "user"
      [] c.role = "implementer" /\ c.site = "B" -> d.role = "tester"
      [] OTHER -> FALSE

\* C26: the agent calls of an iteration come one after another as planner,
\* implementer-reviewer pairs, tester, implementer-tester pairs, user;
\* every call belongs to the current iteration, and the next iteration (or
\* the final report) is reached only after the user call has returned.
C26_StageOrder ==
    /\ calls # <<>> => calls[1].role = "planner"
    /\ \A j \in 1..(Len(calls) - 1) :
         /\ calls[j].out # NoOutput.id
         /\ Follows(calls[j], calls[j + 1])
    /\ pc # "planner" =>
         \A j \in 1..Len(calls) :
             calls[j].out # NoOutput.id => calls[j].out[1] = iteration
    /\ (calls # <<>> /\ pc \in {"planner", "report", "done"}) =>
         /\ calls[Len(calls)].role = "user"
         /\ calls[Len(calls)].out = <<IF pc = "planner" THEN iteration - 1
                                                        ELSE iteration,
                                      "user", 1>>
    /\ calls # <<>> => Len(CallsOf("planner")) = 1
    /\ Len(CallsOf("user")) <= 1

C26_Witness ==
    /\ pc = "planner"
    /\ iteration = 2
    /\ Len(calls) = 9

-----------------------------------------------------------------------------
\* Claims C31 to C39

\* C39: the PID file of a role exists only while a run_agent call for that
\* role is waiting for its process (it is not there between the start of
\* the process and write_pid), and once every run_agent call has returned
\* or raised no PID file is left.
C39_PidRecordOnlyWhileRunning ==
    /\ \A role \in Roles :
         pid_files[role] # 0 =>
           \E run \in Runs : run_pc[run] = "waiting" /\ run_role[run] = role
    /\ (\A run \in Runs : run_pc[run] \in {"idle", "raised"})
         => \A role \in Roles : pid_files[role] = 0

\* One run alone started one process, and its wait ended by an exception.
C39_Witness ==
    /\ next_pid = 2
    /\ \E run \in Runs : run_pc[run] = "raised"
    /\ \A role \in Roles : pid_files[role] = 0

\* C31: the implementation handed to a tester call or to the user call was
\* the input of an earlier reviewer call of the iteration, and the verdict
\* kept in results["approved"] is the verdict of a review of the
\* implementation handed to the user.
C31_ReviewedBeforeDelivery ==
    \A j \in 1..Len(calls) :
        calls[j].role \in {"tester", "user"} =>
          \E i \in 1..(j - 1) :
              /\ calls[i].role = "reviewer"
              /\ calls[i].input = calls[j].input
              /\ calls[j].role = "user" => calls[i].verdict = results.approved

\* The user call of the current iteration has returned.
IterationComplete ==
    /\ calls # <<>>
    /\ calls[Len(calls)].role = "user"

\* C32: with m = max_inner_iterations, an iteration never makes more than
\* one planner call, one user call, m reviewer calls, m tester calls and
\* 2m-1 implementer calls, 4m+1 calls in all, and no more than
\* max_iterations iterations are run; an iteration whose user call has
\* returned made exactly one planner call and at least one call of the
\* implementer, the reviewer and the tester.
C32_InvocationBounds ==
    LET m == max_inner_iterations
    IN  /\ Len(CallsOf("planner")) <= 1
        /\ Len(CallsOf("user")) <= 1
        /\ Len(CallsOf("reviewer")) <= m
        /\ Len(CallsOf("tester")) <= m
        /\ Len(CallsOf("implementer")) <= 2 * m - 1
        /\ Len(calls) <= 4 * m + 1
        /\ iteration <= max_iterations
        /\ Len(all_results) <= max_iterations
        /\ IterationComplete =>
             /\ Len(CallsOf("planner")) = 1
             /\ Len(CallsOf("user")) = 1
             /\ Len(CallsOf("implementer")) >= 1
             /\ Len(CallsOf("reviewer")) >= 1
             /\ Len(CallsOf("tester")) >= 1

C32_Witness ==
    /\ IterationComplete
    /\ max_inner_iterations >= 2
    /\ Len(calls) = 4 * max_inner_iterations + 1
    /\ iteration = max_iterations
    /\ iteration >= 2

\* C33: a call of run_agent continues the role's session unless
\* continue_conversations is off and the call is the first call of its role
\* in iteration 1, which starts a fresh session.
C33_SessionContinuation ==
    pc # "planner" =>
      \A j \in 1..Len(calls) :
          calls[j].cont =
              \/ continue_conversations
              \/ iteration > 1
              \/ \E i \in 1..(j - 1) : calls[i].role = calls[j].role

\* With the flag off: the second iteration has called the planner and the
\* implementer for the first time in that iteration.
C33_Witness ==
    /\ ~continue_conversations
    /\ iteration = 2
    /\ pc = "reviewer"
    /\ Len(calls) = 2
    /\ calls[1].cont /\ calls[2].cont

\* C34: two runs that reach a stage with the same agent response keep the
\* same verdict and go on to the same agent call, whatever the human
\* answers in each of them.
C34_VerdictIgnoresHumanResponse ==
    (\A run \in Runs : v_stage[run] = "done") =>
      /\ v_verdict["A"] = v_verdict["B"]
      /\ v_next["A"] = v_next["B"]
      /\ \A run \in Runs :
           v_verdict[run] = Verdict(v_role, v_response)

\* The reviewer approved and escalated; one human answered with text that
\* contains NEEDS_CHANGES, the other did not, and the outputs passed
\* downstream differ.
C34_Witness ==
    /\ \A run \in Runs : v_stage[run] = "done"
    /\ v_role = "reviewer"
    /\ v_verdict["A"]
    /\ "NEEDS_CHANGES" \in v_human["A"]
    /\ "NEEDS_CHANGES" \notin v_human["B"]
    /\ v_output["A"] # v_output["B"]
    /\ "## Human Response" \in v_output["B"]

\* The task lines of a sequence.
TasksIn(q) == {q[i] : i \in 1..Len(q)}

\* C35: while no task line was added during a pop, the k-th run is the run
\* of the k-th line written to the queue file, the task being run is not in
\* the file, and the file holds, in the order they were written, exactly
\* the lines not yet popped: no task is run twice, skipped or put back.
C35_QueueOrder ==
    ~concurrent_write =>
      /\ \A k \in 1..Len(outcomes) : outcomes[k].task = k
      /\ loop_pc = "run" => /\ task = tasks_completed
                            /\ task \notin TasksIn(queue)
      /\ queue = [i \in 1..(next_task - 1 - tasks_completed)
                    |-> tasks_completed + i]

\* The first task's run raised; the second is running and the third waits.
C35_Witness ==
    /\ ~concurrent_write
    /\ Len(outcomes) = 1
    /\ outcomes[1].ended \in Errors
    /\ loop_pc = "run"
    /\ task = 2
    /\ queue = <<3>>

\* C36: every task line written to the queue file is in the file, is the
\* task being run, or has been run.
C36_AppendedTaskNotLost ==
    \A t \in 1..(next_task - 1) :
        \/ t \in TasksIn(queue)
        \/ loop_pc = "run" /\ t = task
        \/ \E k \in 1..Len(outcomes) : outcomes[k].task = t

\* C37: in a workspace made by init_workspace_from, a push_workspace call
\* with create_pr pushes the branch multiagent-work and puts no commit
\* onto origin's main.
C37_PrPushesWorkingBranch ==
    (cloned /\ pushed.pr) => /\ pushed.branch = "multiagent-work"
                             /\ ~pushed.onto_main

\* C38: the message of a squash commit made after a run recorded a task
\* statement starts with the task description; the fallback message is
\* used only when no run ever recorded one.
C38_SquashMessageFromTask ==
    squash_message # "none" =>
      (squash_message = "multiagent-loop changes" <=> tasks_completed = 0)
====
